---- MODULE Spec2Model ----
(***************************************************************************)
(* thunk<LambdaType, N> of thunk_lambda.hpp: a pool of N slots per         *)
(* (LambdaType, N) instantiation, a lock per pool, N trampolines           *)
(* invoke<I> per pool, and handles (thunk objects) that acquire a slot in  *)
(* their constructor and release it in their destructor.                   *)
(*                                                                         *)
(* Every handle is constructed, used and destroyed by a thread of its own, *)
(* so every interleaving of any number of threads is a behaviour of the    *)
(* model.  A thread is named by the handle it works on.                    *)
(***************************************************************************)
EXTENDS Integers, FiniteSets, Sequences, TLC

\* ------------------------------------------------------------------ bounds
NumHandles == 3      \* thunk objects created during one run of the program
MaxN == 2            \* largest capacity N the program instantiates

Handles == 1..NumHandles
Capacities == 1..MaxN

\* ------------------------------------------------- the callers' closures
\* Closure objects living in the callers' scopes (the `arg` of the
\* constructor); a slot stores the address of one of them.  A, B and C are
\* three objects of one functor class Fn; G is an object of another class
\* Gn whose operator() has the same signature.
NULL == "nullptr"
FnClosures == <<"A", "B", "C">>
Closures == {"A", "B", "C", "G"}

\* The class of a closure object: the template argument LambdaType.
TypeOf(c) == IF c = "G" THEN "Gn" ELSE "Fn"

LambdaTypes == {"Fn", "Gn"}

\* R and FuncPtr: the signature of LambdaType::operator().
Shape(ty) == "int(int)"

\* The captured state of each closure object.
Captured(c) ==
    CASE c = "A" -> [v |-> 3, add |-> TRUE]
      [] c = "B" -> [v |-> 10, add |-> FALSE]
      [] c = "C" -> [v |-> 100, add |-> TRUE]
      [] c = "G" -> [v |-> 3, add |-> FALSE]

\* (*data[I])(a): the closure's own operator().
Call(c, a) ==
    CASE TypeOf(c) = "Fn" ->
           IF Captured(c).add THEN Captured(c).v + a ELSE Captured(c).v - a
      [] TypeOf(c) = "Gn" -> Captured(c).v * a

\* Arguments the foreign code passes to a callback.
Args == {1, 4}

\* ------------------------------------------------------------------ pools
\* One instantiation thunk<LambdaType, N> per class and capacity: its static
\* members data[N] and mut.
Pools == LambdaTypes \X Capacities
Indices(p) == 0..(p[2] - 1)

\* The wrapping expressions thunk<LambdaType, N>(arg) open to the thread of
\* handle h: it wraps the Fn object of its own scope under capacity MaxN or
\* under capacity 1, or the object G under capacity MaxN.
OwnClosure(h) == FnClosures[((h - 1) % Len(FnClosures)) + 1]
Sites(h) == {<<OwnClosure(h), MaxN>>, <<OwnClosure(h), 1>>, <<"G", MaxN>>}

NoOwner == 0
NoIndex == -1

\* Mutant: the trampolines of a pool are folded into one function.
TrampolineFolded(p, I) == [ty |-> p[1], n |-> p[2], I |-> 0]

\* The address of invoke<I> of pool <<ty, n>>; Uninit is the value of the
\* local `ret` of get() before any assignment.
Trampoline(p, I) == [ty |-> p[1], n |-> p[2], I |-> I]
Uninit == [ty |-> "uninitialized", n |-> 0, I |-> NoIndex]

VARIABLES
    data,       \* data[p][i]: the slot table of pool p
    mut,        \* mut[p]: the thread holding pool p's mutex, or NoOwner
    pc,         \* pc[h]: where the thread of handle h stands
    arg,        \* arg[h]: the closure handle h wraps
    cap,        \* cap[h]: the N of handle h's instantiation
    index,      \* index[h]: the member `index` of handle h
    local_i,    \* local_i[h]: the loop variable i of h's call of acquire
    stores,     \* stores[h]: the stores the operations of h made to a slot table
    aborted     \* why the process was terminated, and in whose operation

vars == <<data, mut, pc, arg, cap, index, local_i, stores, aborted>>

\* Mutant: one pool per call signature instead of one per class.
PoolOfShape(h) == <<IF Shape(TypeOf(arg[h])) = "int(int)" THEN "Fn" ELSE TypeOf(arg[h]), cap[h]>>

PoolOf(h) == <<TypeOf(arg[h]), cap[h]>>

Running == [why |-> "no", by |-> NoOwner]

Init ==
    /\ data = [p \in Pools |-> [i \in Indices(p) |-> NULL]]
    /\ mut = [p \in Pools |-> NoOwner]
    /\ pc = [h \in Handles |-> "unconstructed"]
    /\ arg = [h \in Handles |-> NULL]
    /\ cap = [h \in Handles |-> 0]
    /\ index = [h \in Handles |-> NoIndex]
    /\ local_i = [h \in Handles |-> NoIndex]
    /\ stores = [h \in Handles |-> <<>>]
    /\ aborted = Running

\* The handle owns a slot: from the claim inside acquire to the store of
\* nullptr inside release.
Owning(h) == pc[h] \in {"ctor_body", "live", "rel_lock", "rel_cs"}
Live(h) == pc[h] = "live"

\* A store to data[i] by an operation of handle h, and whether the storing
\* thread holds the pool's lock.
Store(h, op, i) == [op |-> op, i |-> i, locked |-> mut[PoolOf(h)] = h]

\* ---------------------------------------------------------------- acquire
\* The values a read of data[p][i] may observe.  The constructor body
\* stores to its slot without the lock, so a scan in another thread can
\* race with that store: the read observes the old or the new contents.
Observable(p, i) ==
    {data[p][i]} \cup {arg[h] : h \in {g \in Handles :
                          pc[g] = "ctor_body" /\ PoolOf(g) = p /\ index[g] = i}}

\* Mutant: the loop does not return at the first empty entry, the last wins.
RECURSIVE ScanLast(_, _, _, _)
ScanLast(view, i, n, found) ==
    IF i = n THEN found
    ELSE ScanLast(view, i + 1, n, IF view[i] = NULL THEN i ELSE found)

ScanLastFrom(view, i, n) == ScanLast(view, i, n, NoIndex)

\* for (i = 0; i != N; ++i) if (nullptr == data[i]) return i
RECURSIVE Scan(_, _, _)
Scan(view, i, n) ==
    IF i = n THEN NoIndex
    ELSE IF view[i] = NULL THEN i
    ELSE Scan(view, i + 1, n)

\* Mutant: the loop stops one entry early (i != N - 1).
FirstEmptyShort(view, n) == Scan(view, 0, n - 1)

FirstEmpty(view, n) == Scan(view, 0, n)

\* thunk(LambdaType &arg): the call of acquire(arg) begins.  Handles are
\* numbered in the order in which their constructions begin.
Construct(h, c, n) ==
    /\ aborted.why = "no"
    /\ pc[h] = "unconstructed"
    /\ \A g \in Handles : g < h => pc[g] # "unconstructed"
    /\ arg' = [arg EXCEPT ![h] = c]
    /\ cap' = [cap EXCEPT ![h] = n]
    /\ pc' = [pc EXCEPT ![h] = "acq_lock"]
    /\ UNCHANGED <<data, mut, index, local_i, stores, aborted>>

\* Mutant: the lock is taken without waiting for its holder.
LockBarging(h, from, to) ==
    /\ aborted.why = "no"
    /\ pc[h] = from
    /\ mut' = [mut EXCEPT ![PoolOf(h)] = h]
    /\ pc' = [pc EXCEPT ![h] = to]
    /\ UNCHANGED <<data, arg, cap, index, local_i, stores, aborted>>

\* std::lock_guard lck(mut) succeeds (it blocks while another thread holds mut).
Lock(h, from, to) ==
    /\ aborted.why = "no"
    /\ pc[h] = from
    /\ mut[PoolOf(h)] = NoOwner
    /\ mut' = [mut EXCEPT ![PoolOf(h)] = h]
    /\ pc' = [pc EXCEPT ![h] = to]
    /\ UNCHANGED <<data, arg, cap, index, local_i, stores, aborted>>

\* Mutant: the handler swallows the exception and the operation goes on
\* without the lock.
LockFailIgnored(h) ==
    /\ aborted.why = "no"
    /\ pc[h] \in {"acq_lock", "rel_lock"}
    /\ pc' = [pc EXCEPT ![h] = IF @ = "acq_lock" THEN "acq_cs" ELSE "rel_cs"]
    /\ UNCHANGED <<data, mut, arg, cap, index, local_i, stores, aborted>>

\* std::lock_guard lck(mut) throws std::system_error: catch (...) aborts.
LockFail(h) ==
    /\ aborted.why = "no"
    /\ pc[h] \in {"acq_lock", "rel_lock"}
    /\ aborted' = [why |-> "lockfail", by |-> h]
    /\ UNCHANGED <<data, mut, pc, arg, cap, index, local_i, stores>>

AcquireLock(h) == Lock(h, "acq_lock", "acq_cs")

\* The loop of acquire under the lock: it stops at the first empty entry,
\* or the pool is exhausted and the process aborts.
AcquireScan(h) ==
    /\ aborted.why = "no"
    /\ pc[h] = "acq_cs"
    /\ LET p == PoolOf(h) IN
       \E view \in [Indices(p) -> Closures \cup {NULL}] :
          /\ \A i \in Indices(p) : view[i] \in Observable(p, i)
          /\ LET i == FirstEmpty(view, p[2]) IN
             IF i = NoIndex
             THEN /\ aborted' = [why |-> "exhausted", by |-> h]
                  /\ UNCHANGED <<data, mut, pc, arg, cap, index, local_i, stores>>
             ELSE /\ local_i' = [local_i EXCEPT ![h] = i]
                  /\ pc' = [pc EXCEPT ![h] = "acq_store"]
                  /\ UNCHANGED <<data, mut, arg, cap, index, stores, aborted>>

\* Mutant: acquire returns with the lock still held.
AcquireStoreKeepsLock(h) ==
    /\ aborted.why = "no"
    /\ pc[h] = "acq_store"
    /\ data' = [data EXCEPT ![PoolOf(h)][local_i[h]] = arg[h]]
    /\ index' = [index EXCEPT ![h] = local_i[h]]
    /\ stores' = [stores EXCEPT ![h] = Append(@, Store(h, "acquire", local_i[h]))]
    /\ pc' = [pc EXCEPT ![h] = "ctor_body"]
    /\ UNCHANGED <<mut, arg, cap, local_i, aborted>>

\* return data[i] = &arg, i;  then ~lock_guard unlocks and the member
\* `index` is initialised with the value returned.
AcquireStore(h) ==
    /\ aborted.why = "no"
    /\ pc[h] = "acq_store"
    /\ LET p == PoolOf(h)
           i == local_i[h]
       IN /\ data' = [data EXCEPT ![p][i] = arg[h]]
          /\ index' = [index EXCEPT ![h] = i]
          /\ stores' = [stores EXCEPT ![h] = Append(@, Store(h, "acquire", i))]
          /\ mut' = [mut EXCEPT ![p] = IF @ = h THEN NoOwner ELSE @]
          /\ pc' = [pc EXCEPT ![h] = "ctor_body"]
          /\ UNCHANGED <<arg, cap, local_i, aborted>>

\* The constructor's body: data[index] = &arg, with no lock held.
CtorBody(h) ==
    /\ aborted.why = "no"
    /\ pc[h] = "ctor_body"
    /\ data' = [data EXCEPT ![PoolOf(h)][index[h]] = arg[h]]
    /\ stores' = [stores EXCEPT ![h] = Append(@, Store(h, "ctor", index[h]))]
    /\ pc' = [pc EXCEPT ![h] = "live"]
    /\ UNCHANGED <<mut, arg, cap, index, local_i, aborted>>

\* ---------------------------------------------------------------- release
\* Mutant: the destructor ends without calling release.
DestroySkipsRelease(h) ==
    /\ aborted.why = "no"
    /\ pc[h] = "live"
    /\ pc' = [pc EXCEPT ![h] = "released"]
    /\ UNCHANGED <<data, mut, arg, cap, index, local_i, stores, aborted>>

\* ~thunk(): the call of release(index) begins.
Destroy(h) ==
    /\ aborted.why = "no"
    /\ pc[h] = "live"
    /\ pc' = [pc EXCEPT ![h] = "rel_lock"]
    /\ UNCHANGED <<data, mut, arg, cap, index, local_i, stores, aborted>>

ReleaseLock(h) == Lock(h, "rel_lock", "rel_cs")

\* The body of release under the lock: data[i] = nullptr, then ~lock_guard.
\* Mutant: release clears entry 0 whatever index it is given.
ReleaseIndexZero(h) == 0

ReleaseIndex(h) == index[h]

\* Mutant: handles can be copied; the destructor of a copy releases the
\* index and the original lives on, to release it again.
ReleaseStoreOfCopy(h) ==
    /\ aborted.why = "no"
    /\ pc[h] = "rel_cs"
    /\ data' = [data EXCEPT ![PoolOf(h)][ReleaseIndex(h)] = NULL]
    /\ stores' = [stores EXCEPT ![h] = Append(@, Store(h, "release", ReleaseIndex(h)))]
    /\ mut' = [mut EXCEPT ![PoolOf(h)] = IF @ = h THEN NoOwner ELSE @]
    /\ pc' = [pc EXCEPT ![h] = "live"]
    /\ UNCHANGED <<arg, cap, index, local_i, aborted>>

\* Mutant: release clears the whole table of its pool.
ReleaseStoreAll(h) ==
    /\ aborted.why = "no"
    /\ pc[h] = "rel_cs"
    /\ data' = [data EXCEPT ![PoolOf(h)] = [i \in Indices(PoolOf(h)) |-> NULL]]
    /\ stores' = [stores EXCEPT ![h] = Append(@, Store(h, "release", ReleaseIndex(h)))]
    /\ mut' = [mut EXCEPT ![PoolOf(h)] = IF @ = h THEN NoOwner ELSE @]
    /\ pc' = [pc EXCEPT ![h] = "released"]
    /\ UNCHANGED <<arg, cap, index, local_i, aborted>>

ReleaseStore(h) ==
    /\ aborted.why = "no"
    /\ pc[h] = "rel_cs"
    /\ data' = [data EXCEPT ![PoolOf(h)][ReleaseIndex(h)] = NULL]
    /\ stores' = [stores EXCEPT ![h] = Append(@, Store(h, "release", ReleaseIndex(h)))]
    /\ mut' = [mut EXCEPT ![PoolOf(h)] = IF @ = h THEN NoOwner ELSE @]
    /\ pc' = [pc EXCEPT ![h] = "released"]
    /\ UNCHANGED <<arg, cap, index, local_i, aborted>>

\* ------------------------------------------------------ get() and invoke<I>
\* ((I == index ? ret = &invoke<I> : ret), ...) over I = 0 .. N-1, with
\* `ret` uninitialized at the start.
RECURSIVE Select(_, _, _, _)
Select(p, idx, I, ret) ==
    IF I = p[2] THEN ret
    ELSE Select(p, idx, I + 1, IF I = idx THEN Trampoline(p, I) ELSE ret)

\* Mutant: the selection compares I + 1 with the index.
getOffByOne(h) == Select(PoolOf(h), index[h] - 1, 0, Uninit)

get(h) == Select(PoolOf(h), index[h], 0, Uninit)

\* Mutant: every trampoline reads entry 0.
SlotFirst(t) == data[<<t.ty, t.n>>][0]

\* The entry invoke<I> reads: data[I] of its own pool.
Slot(t) == data[<<t.ty, t.n>>][t.I]

\* invoke<I>(a): assert(nullptr != data[I]); return (*data[I])(a).
\* The value returned to the caller of the pointer t, or the failure of the
\* assertion.  No lock is taken.
AssertFailed == [asserted |-> FALSE, target |-> NULL, ret |-> 0]
\* Mutant: the arguments are not forwarded to the closure.
ReturnedNoArg(c, a) == [asserted |-> TRUE, target |-> c, ret |-> Call(c, 0)]

Returned(c, a) == [asserted |-> TRUE, target |-> c, ret |-> Call(c, a)]
Dispatch(t, a) ==
    IF Slot(t) = NULL THEN AssertFailed ELSE Returned(Slot(t), a)

\* The handle exists as an object, so that get() can be called on it.
Constructed(h) == pc[h] = "live"

\* The foreign code holds the pointer it got from h.get(): from the end of
\* the constructor on, and it may keep it after the handle is destroyed.
Holds(h) == pc[h] \in {"live", "rel_lock", "rel_cs", "released"}

\* operator FuncPtr(): the foreign code receives h.get().  get() is const:
\* neither the handle nor the pool changes.
Get(h) ==
    /\ aborted.why = "no"
    /\ Constructed(h)
    /\ get(h) # Uninit
    /\ UNCHANGED vars

\* The foreign code calls the pointer it got from h with argument a.  When
\* the assertion of invoke<I> fails the process aborts (without assertions
\* the call goes through a null pointer); otherwise the closure runs and
\* its result is returned, and nothing of the pool changes.
Invoke(h, a) ==
    /\ aborted.why = "no"
    /\ Holds(h)
    /\ IF ~Dispatch(get(h), a).asserted
       THEN aborted' = [why |-> "assert", by |-> h]
       ELSE UNCHANGED aborted
    /\ UNCHANGED <<data, mut, pc, arg, cap, index, local_i, stores>>

Next ==
    \/ \E h \in Handles : \E s \in Sites(h) : Construct(h, s[1], s[2])
    \/ \E h \in Handles : AcquireLock(h)
    \/ \E h \in Handles : LockFail(h)
    \/ \E h \in Handles : AcquireScan(h)
    \/ \E h \in Handles : AcquireStore(h)
    \/ \E h \in Handles : CtorBody(h)
    \/ \E h \in Handles : Get(h)
    \/ \E h \in Handles, a \in Args : Invoke(h, a)
    \/ \E h \in Handles : Destroy(h)
    \/ \E h \in Handles : ReleaseLock(h)
    \/ \E h \in Handles : ReleaseStore(h)

Spec == Init /\ [][Next]_vars

\* ------------------------------------------------------ fair scheduling
\* The steps of acquire and release that the thread of handle h takes by
\* itself once the operation is called.  The scheduler runs every thread
\* that can run: a step of h that stays possible is eventually taken.  A
\* thread waiting for the lock cannot run, and a failure of the lock
\* (LockFail) is a fault of the environment that never has to happen.
Progress(h) ==
    \/ AcquireLock(h)
    \/ AcquireScan(h)
    \/ AcquireStore(h)
    \/ ReleaseLock(h)
    \/ ReleaseStore(h)

FairSpec == Spec /\ \A h \in Handles : WF_vars(Progress(h))

\* ------------------------------------------- a single-threaded program
\* main() of test.cpp: one thread runs the statements
\* SomeLibraryFunc( thunk(f) ) one after the other.  The handle of such a
\* statement is a temporary: it is constructed, converted to the pointer,
\* called by the library function and destroyed before the next statement
\* begins.  A named handle (thunk t(f);) may be alive across statements; it
\* is constructed and destroyed between them.
Named == {1}
Temporaries == Handles \ Named

\* The thread is free to run a step of handle h: no other handle is in the
\* middle of its constructor, of its statement or of its destructor.
Turn(h) ==
    \A g \in Handles \ {h} :
        \/ pc[g] \in {"unconstructed", "released"}
        \/ g \in Named /\ h \in Temporaries /\ pc[g] = "live"

SeqNext ==
    \/ \E h \in Handles : \E s \in Sites(h) : Turn(h) /\ Construct(h, s[1], s[2])
    \/ \E h \in Handles : Turn(h) /\ AcquireLock(h)
    \/ \E h \in Handles : Turn(h) /\ LockFail(h)
    \/ \E h \in Handles : Turn(h) /\ AcquireScan(h)
    \/ \E h \in Handles : Turn(h) /\ AcquireStore(h)
    \/ \E h \in Handles : Turn(h) /\ CtorBody(h)
    \/ \E h \in Handles : Turn(h) /\ Get(h)
    \/ \E h \in Handles, a \in Args : Turn(h) /\ Live(h) /\ Invoke(h, a)
    \/ \E h \in Handles : Turn(h) /\ Destroy(h)
    \/ \E h \in Handles : Turn(h) /\ ReleaseLock(h)
    \/ \E h \in Handles : Turn(h) /\ ReleaseStore(h)

SeqSpec == Init /\ [][SeqNext]_vars

\* ------------------------------------------------------------ properties
Full(p) == \A i \in Indices(p) : data[p][i] # NULL
Occupied(p) == {i \in Indices(p) : data[p][i] # NULL}
Owners(p, i) == {h \in Handles : Owning(h) /\ PoolOf(h) = p /\ index[h] = i}

\* C1: within one pool no two handles that own a slot at the same time hold
\* the same index, whatever the interleaving of constructions and
\* destructions; the index an acquire returned lies in [0, N) and is held
\* by no other handle.
NoSharedSlot ==
    \A h \in Handles : Owning(h) =>
        /\ index[h] \in Indices(PoolOf(h))
        /\ \A g \in Handles :
              (g # h /\ Owning(g) /\ PoolOf(g) = PoolOf(h)) => index[g] # index[h]

\* Two handles of one pool are live together, a third handle of that pool
\* has been through acquire as well.
NoSharedSlotWitness ==
    \E h, g \in Handles :
        /\ h # g /\ Live(h) /\ Live(g)
        /\ PoolOf(h) = PoolOf(g)
        /\ index[h] = 0 /\ index[g] = 1

\* C2: the pointer of a live handle, invoked with a, runs the closure the
\* handle wraps and returns its result; with two handles alive together it
\* never runs the closure of the other handle.
DispatchOwn ==
    \A h \in Handles : Live(h) =>
        \A a \in Args :
            /\ Dispatch(get(h), a) = Returned(arg[h], a)
            /\ Dispatch(get(h), a).ret = Call(arg[h], a)
            /\ \A g \in Handles :
                  (Live(g) /\ arg[g] # arg[h]) =>
                      Dispatch(get(h), a).target # arg[g]

\* Two live handles of one pool wrap different closures whose results differ.
DispatchOwnWitness ==
    \E h, g \in Handles :
        /\ Live(h) /\ Live(g) /\ PoolOf(h) = PoolOf(g)
        /\ arg[h] = "A" /\ arg[g] = "B"
        /\ Dispatch(get(h), 4).ret = 7
        /\ Dispatch(get(g), 4).ret = 6

\* C3: get() of a live handle returns the trampoline bound to the handle's
\* index, exactly one of the N trampolines of the pool is bound to that
\* index, and as long as the handle lives get() returns the same pointer:
\* no step changes the handle or the entry of its slot while it lives.
GetSelectsOwn ==
    \A h \in Handles : Live(h) =>
        /\ get(h) = Trampoline(PoolOf(h), index[h])
        /\ Cardinality({I \in Indices(PoolOf(h)) :
                            Trampoline(PoolOf(h), I) = get(h)}) = 1

GetSameStep ==
    \A h \in Handles :
        /\ (Live(h) /\ Live(h)') => get(h)' = get(h)
        /\ (Live(h) /\ Live(h)') =>
              /\ UNCHANGED <<index[h], arg[h], cap[h]>>
              /\ data'[PoolOf(h)][index[h]] = data[PoolOf(h)][index[h]]

GetStable == []GetSelectsOwn /\ [][GetSameStep]_vars

\* A live handle whose index is not 0, so that the selection passes over a
\* trampoline that does not match.
GetStableWitness ==
    \E h \in Handles : Live(h) /\ index[h] = 1 /\ get(h).I = 1

\* C4: the release of a handle leaves its slot empty, so that the slot can
\* be claimed again; a slot claimed again holds the closure of the handle
\* that owns it now, and no live handle dispatches to the closure of the
\* destroyed handle in its place.
ReleaseStep ==
    \A h \in Handles :
        (pc[h] = "rel_cs" /\ pc'[h] = "released") =>
            /\ data'[PoolOf(h)][index[h]] = NULL
            /\ FirstEmpty(data'[PoolOf(h)], cap[h]) # NoIndex
            /\ FirstEmpty(data'[PoolOf(h)], cap[h]) <= index[h]

ReleasedSlot ==
    \A h \in Handles : pc[h] = "released" =>
        LET p == PoolOf(h) IN
        /\ \/ data[p][index[h]] = NULL
           \/ \E g \in Owners(p, index[h]) : g # h /\ data[p][index[h]] = arg[g]
        /\ \A g \in Handles :
              (Live(g) /\ arg[g] # arg[h]) =>
                  \A a \in Args : Dispatch(get(g), a).target # arg[h]

SlotReused == []ReleasedSlot /\ [][ReleaseStep]_vars

\* A destroyed handle's index is held by a later live handle that wraps
\* another closure.
SlotReusedWitness ==
    \E h, g \in Handles :
        /\ pc[h] = "released" /\ Live(g)
        /\ PoolOf(h) = PoolOf(g) /\ index[h] = index[g]
        /\ arg[h] # arg[g]
        /\ data[PoolOf(g)][index[g]] = arg[g]

\* C5: a scan of a pool whose N entries are all occupied aborts the process
\* and changes no entry of any slot table; it returns no index; the process
\* is never aborted for exhaustion while the pool scanned has an empty entry.
ExhaustionStep ==
    /\ \A h \in Handles :
          (pc[h] = "acq_cs" /\ Full(PoolOf(h)) /\ <<pc[h], local_i[h]>>' # <<pc[h], local_i[h]>>)
              => FALSE
    /\ \A h \in Handles :
          (pc[h] = "acq_cs" /\ Full(PoolOf(h)) /\ aborted'.by = h /\ aborted # aborted')
              => aborted'.why \in {"exhausted"} /\ data' = data /\ index' = index
    /\ (aborted.why = "no" /\ aborted'.why = "exhausted") =>
          /\ pc[aborted'.by] = "acq_cs"
          /\ Full(PoolOf(aborted'.by))
          /\ data' = data

ExhaustedState ==
    aborted.why = "exhausted" =>
        /\ pc[aborted.by] = "acq_cs"
        /\ Full(PoolOf(aborted.by))
        /\ index[aborted.by] = NoIndex

ExhaustionAborts == []ExhaustedState /\ [][ExhaustionStep]_vars

\* The process was aborted by an acquire on a pool of capacity MaxN with
\* every entry occupied.
ExhaustionWitness ==
    /\ aborted.why = "exhausted"
    /\ cap[aborted.by] = MaxN
    /\ Cardinality(Occupied(PoolOf(aborted.by))) = MaxN

\* C6: capacity 2, the pool empty at the start.  The handle that wraps A
\* gets slot 0; the handle that wraps B while A's handle is live gets slot
\* 1; A's pointer on 4 gives 7 and B's pointer on 4 gives 6; after A's
\* handle is released, the handle wrapping C gets slot 0 and its pointer on
\* 1 gives 101, while B's pointer on 4 still gives 6.
ScenarioPool == <<"Fn", 2>>
Wraps(h, c) == arg[h] = c /\ PoolOf(h) = ScenarioPool
Scans(h) == pc[h] = "acq_cs" /\ pc'[h] = "acq_store"

ScenarioStep ==
    \A h \in Handles :
        /\ (Scans(h) /\ Wraps(h, "A") /\ Occupied(ScenarioPool) = {})
              => local_i'[h] = 0
        /\ (Scans(h) /\ Wraps(h, "B") /\ Occupied(ScenarioPool) = {0}
              /\ (\E g \in Handles : Live(g) /\ Wraps(g, "A") /\ index[g] = 0))
              => local_i'[h] = 1
        /\ (Scans(h) /\ Wraps(h, "C") /\ Occupied(ScenarioPool) = {1}
              /\ (\E g \in Handles : pc[g] = "released" /\ Wraps(g, "A") /\ index[g] = 0)
              /\ (\E g \in Handles : Live(g) /\ Wraps(g, "B") /\ index[g] = 1))
              => local_i'[h] = 0

ScenarioState ==
    \A h \in Handles : Live(h) =>
        /\ Wraps(h, "A") => Dispatch(get(h), 4).ret = 7
        /\ Wraps(h, "B") => Dispatch(get(h), 4).ret = 6
        /\ Wraps(h, "C") => Dispatch(get(h), 1).ret = 101

Scenario == []ScenarioState /\ [][ScenarioStep]_vars

\* The end of the scenario: A's handle released from slot 0, B's handle
\* live in slot 1, C's handle live in slot 0.
ScenarioWitness ==
    \E hA, hB, hC \in Handles :
        /\ Wraps(hA, "A") /\ pc[hA] = "released" /\ index[hA] = 0
        /\ Wraps(hB, "B") /\ Live(hB) /\ index[hB] = 1
        /\ Wraps(hC, "C") /\ Live(hC) /\ index[hC] = 0
        /\ Dispatch(get(hC), 1).ret = 101
        /\ Dispatch(get(hB), 4).ret = 6

\* C7 as stated: handles wrapping closures of one Closure Shape with one
\* capacity N draw from one slot table, so two of them that own a slot at
\* the same time always have different indices.
OnePoolPerShape ==
    \A h, g \in Handles :
        (h # g /\ Owning(h) /\ Owning(g)
            /\ Shape(TypeOf(arg[h])) = Shape(TypeOf(arg[g])) /\ cap[h] = cap[g])
        => index[h] # index[g]

\* C7 as amended: there is one slot table and one lock per closure class
\* (LambdaType) and capacity.  Handles of one class and capacity get
\* different indices and count against the same N; every occupied entry of
\* a pool holds a closure of the pool's class and is owned by a handle of
\* that class and capacity: a handle of another class or capacity, even of
\* the same Closure Shape, uses another table.
OnePoolPerClass ==
    /\ \A h, g \in Handles :
          (h # g /\ Owning(h) /\ Owning(g)
              /\ TypeOf(arg[h]) = TypeOf(arg[g]) /\ cap[h] = cap[g])
          => index[h] # index[g]
    /\ \A p \in Pools :
          /\ Cardinality({h \in Handles : Owning(h) /\ TypeOf(arg[h]) = p[1]
                                            /\ cap[h] = p[2]}) <= p[2]
          /\ \A i \in Occupied(p) :
                /\ TypeOf(data[p][i]) = p[1]
                /\ \E h \in Handles :
                      /\ Owning(h) /\ TypeOf(arg[h]) = p[1] /\ cap[h] = p[2]
                      /\ index[h] = i /\ data[p][i] = arg[h]

\* Two live handles of the same shape and capacity but of different
\* classes both hold index 0, each in its own table.
OnePoolPerClassWitness ==
    \E h, g \in Handles :
        /\ Live(h) /\ Live(g)
        /\ arg[h] = "A" /\ arg[g] = "G" /\ cap[h] = cap[g]
        /\ Shape(TypeOf(arg[h])) = Shape(TypeOf(arg[g]))
        /\ index[h] = 0 /\ index[g] = 0
        /\ data[PoolOf(h)][0] = "A" /\ data[PoolOf(g)][0] = "G"

\* C8: every store to a slot table is made by acquire or by release, by a
\* thread that holds the lock of the pool.
StoresUnderLock ==
    \A h \in Handles :
        \A k \in 1..Len(stores[h]) :
            /\ stores[h][k].op \in {"acquire", "release"}
            /\ stores[h][k].locked

\* C9: from the claim of slot i for handle h to h's release the entry is
\* written once and equals h's closure in every state, so that every call
\* through the pointer of the live handle finds the slot occupied.
StoresSinceClaim(h) ==
    Cardinality({k \in 1..Len(stores[h]) : stores[h][k].op # "release"})

WrittenOnce ==
    \A h \in Handles : Owning(h) =>
        /\ data[PoolOf(h)][index[h]] = arg[h]
        /\ StoresSinceClaim(h) = 1
        /\ Live(h) => \A a \in Args : Dispatch(get(h), a).asserted

\* C10: the scan of acquire stops at the smallest index whose entry is
\* empty: the entry at the index found is empty and every entry below it
\* is occupied.
SmallestEmptyStep ==
    \A h \in Handles :
        Scans(h) =>
            LET p == PoolOf(h) IN
            /\ local_i'[h] \in Indices(p)
            /\ data[p][local_i'[h]] = NULL
            /\ \A j \in Indices(p) : j < local_i'[h] => data[p][j] # NULL

SmallestEmpty == [][SmallestEmptyStep]_vars

\* A scan has stopped at index 1 above an occupied entry 0, and another at
\* index 0 below an occupied entry 1.
SmallestEmptyWitness ==
    \E h, g \in Handles :
        /\ pc[h] = "acq_store" /\ local_i[h] = 0
        /\ PoolOf(h) = PoolOf(g) /\ Live(g) /\ index[g] = 1
        /\ Occupied(PoolOf(h)) = {1}

\* C11: every entry is empty at the start, and in every step each entry
\* keeps its value, or goes from empty to occupied by the store of a
\* successful acquire, or goes from occupied to empty by the store of a
\* release of the handle that owns it; no step replaces an occupant by
\* another one and no step other than a release clears an entry.
AllEmpty == \A p \in Pools : \A i \in Indices(p) : data[p][i] = NULL

AcquireFills(h, p, i) ==
    /\ pc[h] = "acq_store" /\ pc'[h] = "ctor_body"
    /\ PoolOf(h) = p /\ index'[h] = i
    /\ data[p][i] = NULL /\ data'[p][i] = arg[h]

ReleaseClears(h, p, i) ==
    /\ pc[h] = "rel_cs" /\ pc'[h] = "released"
    /\ PoolOf(h) = p /\ index[h] = i
    /\ data[p][i] # NULL /\ data'[p][i] = NULL

EntryStep ==
    \A p \in Pools : \A i \in Indices(p) :
        \/ data'[p][i] = data[p][i]
        \/ \E h \in Handles : AcquireFills(h, p, i)
        \/ \E h \in Handles : ReleaseClears(h, p, i)

EntryLifecycle == AllEmpty /\ [][EntryStep]_vars

\* An entry has been through the whole cycle and is occupied again: it was
\* filled and cleared by one handle and is now filled by another one, whose
\* constructor body has stored to it a second time.
EntryLifecycleWitness ==
    \E h, g \in Handles :
        /\ pc[h] = "released" /\ Len(stores[h]) = 3
        /\ Live(g) /\ Len(stores[g]) = 2
        /\ PoolOf(g) = PoolOf(h) /\ index[g] = index[h]
        /\ stores[g][2].op = "ctor"
        /\ data[PoolOf(g)][index[g]] = arg[g]

\* C12: a handle moves only unconstructed -> acquired -> released.  It
\* acquires exactly once, its index does not change once acquired, it
\* releases exactly once, only the index it acquired and only while it
\* owns it, and a released handle never acquires again.
Phase(h) ==
    IF pc[h] = "released" THEN "released"
    ELSE IF Owning(h) THEN "acquired"
    ELSE "unconstructed"

Ops(h, op) == {k \in 1..Len(stores[h]) : stores[h][k].op = op}

HandleState ==
    \A h \in Handles :
        /\ Phase(h) = "unconstructed" =>
              /\ stores[h] = <<>>
              /\ index[h] = NoIndex
        /\ Phase(h) = "acquired" =>
              /\ Ops(h, "acquire") = {1} /\ Ops(h, "release") = {}
              /\ stores[h][1].i = index[h]
              /\ Owners(PoolOf(h), index[h]) = {h}
              /\ data[PoolOf(h)][index[h]] = arg[h]
        /\ Phase(h) = "released" =>
              /\ Ops(h, "acquire") = {1} /\ Ops(h, "release") = {Len(stores[h])}
              /\ stores[h][1].i = index[h]
              /\ stores[h][Len(stores[h])].i = index[h]

HandleStep ==
    \A h \in Handles :
        /\ \/ Phase(h)' = Phase(h)
           \/ Phase(h) = "unconstructed" /\ Phase(h)' = "acquired"
           \/ Phase(h) = "acquired" /\ Phase(h)' = "released"
        /\ Phase(h) # "unconstructed" =>
              /\ index'[h] = index[h]
              /\ arg'[h] = arg[h] /\ cap'[h] = cap[h]

HandleLifecycle == []HandleState /\ [][HandleStep]_vars

\* Every handle has been through its whole life and one of them held an
\* index other than 0.
HandleLifecycleWitness ==
    /\ \A h \in Handles : Phase(h) = "released"
    /\ \E h \in Handles : index[h] = 1 /\ stores[h][3] = [op |-> "release", i |-> 1, locked |-> TRUE]

\* C13: when the lock cannot be taken inside acquire or release the process
\* is terminated in that very step, the failing operation has stored
\* nothing to the slot table and returned nothing, the critical section is
\* entered only by taking the free lock, and a terminated process takes no
\* further step (no retry).
LockPoints == {"acq_lock", "rel_lock"}

LockFailStep ==
    \A h \in Handles :
        (aborted.why = "no" /\ aborted' = [why |-> "lockfail", by |-> h]) =>
            /\ pc[h] \in LockPoints
            /\ UNCHANGED <<data, mut, pc, index, local_i, stores>>

EnterStep ==
    \A h \in Handles :
        (pc[h] \in LockPoints /\ pc'[h] # pc[h]) =>
            /\ mut[PoolOf(h)] = NoOwner /\ mut'[PoolOf(h)] = h
            /\ pc'[h] = (IF pc[h] = "acq_lock" THEN "acq_cs" ELSE "rel_cs")
            /\ UNCHANGED <<data, aborted>>

LockFailState ==
    aborted.why = "lockfail" =>
        LET h == aborted.by IN
        /\ pc[h] \in LockPoints
        /\ mut[PoolOf(h)] # h
        /\ pc[h] = "acq_lock" => (stores[h] = <<>> /\ index[h] = NoIndex)
        /\ pc[h] = "rel_lock" =>
              /\ Ops(h, "release") = {}
              /\ data[PoolOf(h)][index[h]] = arg[h]

LockFailureFatal ==
    /\ []LockFailState
    /\ [][LockFailStep /\ EnterStep /\ aborted.why = "no"]_vars

\* The lock failed in the release of a handle while another thread held the
\* pool's lock inside acquire: the entry of the failing handle is still
\* occupied.
LockFailureFatalWitness ==
    /\ aborted.why = "lockfail"
    /\ pc[aborted.by] = "rel_lock"
    /\ \E g \in Handles :
          /\ pc[g] = "acq_store" /\ mut[PoolOf(aborted.by)] = g
          /\ local_i[g] # index[aborted.by]

\* C14: the store of release(i) sets entry i of its pool to empty and
\* changes nothing else: every other entry of every table, and the index,
\* the pointer and the dispatch result of every other live handle, are the
\* same after the release as before.
Releases(h) == pc[h] = "rel_cs" /\ pc'[h] = "released"

ReleaseFrame ==
    \A h \in Handles : Releases(h) =>
        /\ data'[PoolOf(h)][index[h]] = NULL
        /\ \A p \in Pools : \A i \in Indices(p) :
              (p # PoolOf(h) \/ i # index[h]) => data'[p][i] = data[p][i]
        /\ \A g \in Handles : g # h =>
              /\ index'[g] = index[g] /\ pc'[g] = pc[g]
              /\ Live(g) =>
                    /\ get(g)' = get(g)
                    /\ \A a \in Args : Dispatch(get(g), a)' = Dispatch(get(g), a)
                    /\ \A a \in Args : Dispatch(get(g), a)' = Returned(arg[g], a)

ReleaseOnlyOwn == [][ReleaseFrame]_vars

\* A handle holding index 1 has been released while a live handle of the
\* same pool keeps entry 0, and a live handle of another pool keeps its own.
ReleaseOnlyOwnWitness ==
    \E h, g, k \in Handles :
        /\ pc[h] = "released" /\ index[h] = 1 /\ data[PoolOf(h)][1] = NULL
        /\ Live(g) /\ PoolOf(g) = PoolOf(h) /\ index[g] = 0
        /\ data[PoolOf(g)][0] = arg[g]
        /\ Live(k) /\ PoolOf(k) # PoolOf(h) /\ data[PoolOf(k)][index[k]] = arg[k]

\* C15: no slot leaks.  In every reachable state an entry is occupied
\* exactly when one handle that has acquired and not yet released owns that
\* index (and then it holds that handle's closure), so each pool has as
\* many occupied entries as owning handles; once every handle has been
\* destroyed every entry of every pool is empty.
OwningIn(p) == {h \in Handles : Owning(h) /\ PoolOf(h) = p}

OwnsEntry(h, p, i) == Owning(h) /\ index[h] = i /\ PoolOf(h) = p

NoLeak ==
    /\ \A h \in Handles : Owning(h) =>
          /\ data[PoolOf(h)][index[h]] = arg[h]
          /\ \A g \in Handles \ {h} : ~OwnsEntry(g, PoolOf(h), index[h])
    /\ \A p \in Pools : \A i \in Indices(p) :
          data[p][i] # NULL => \E h \in Handles : OwnsEntry(h, p, i)
    /\ \A p \in Pools : Cardinality(Occupied(p)) = Cardinality(OwningIn(p))
    /\ (\A h \in Handles : pc[h] = "released") => AllEmpty

NoSlotLeaks == []NoLeak

\* One pool with both entries occupied, by a handle still inside its
\* constructor and by a handle already inside release, after a third handle
\* of that pool has been destroyed.
NoLeakWitness ==
    \E h, g, k \in Handles :
        /\ pc[h] = "ctor_body" /\ pc[g] = "rel_cs" /\ pc[k] = "released"
        /\ PoolOf(h) = PoolOf(g) /\ PoolOf(k) = PoolOf(g)
        /\ Occupied(PoolOf(h)) = {0, 1}
        /\ OwningIn(PoolOf(h)) = {h, g}

\* C16: in a single-threaded program the statement that wraps a closure in
\* a temporary handle, has its pointer called and destroys the handle at
\* the end leaves the slot table as it was before the statement: the table
\* holds the entries of the named handles alive across the statement and
\* nothing else, before its first step and after its last.  Every
\* repetition of the statement therefore claims the same index, and a
\* statement exhausts the pool only if the named handles alone fill it.
NamedAt(p, i) == {g \in Named : Owning(g) /\ PoolOf(g) = p /\ index[g] = i}

NamedTable ==
    [p \in Pools |-> [i \in Indices(p) |->
        IF NamedAt(p, i) = {} THEN NULL ELSE arg[CHOOSE g \in NamedAt(p, i) : TRUE]]]

InStatement(h) == pc[h] \notin {"unconstructed", "released"}

RoundTripStep ==
    \A h \in Temporaries :
        /\ (pc[h] = "unconstructed" /\ pc'[h] = "acq_lock") => data = NamedTable
        /\ InStatement(h) =>
              /\ NamedTable' = NamedTable
              /\ \A g \in Handles \ {h} : pc'[g] = pc[g]
        /\ Releases(h) => data' = NamedTable

RoundTripState ==
    /\ \A h \in Temporaries :
          Owning(h) => index[h] = FirstEmpty(NamedTable[PoolOf(h)], cap[h])
    /\ aborted.why = "exhausted" =>
          /\ aborted.by \in Temporaries
          /\ \A i \in Indices(PoolOf(aborted.by)) : NamedAt(PoolOf(aborted.by), i) # {}

RoundTrip == []RoundTripState /\ [][RoundTripStep]_vars

\* All temporaries have run their statements in the pool of a live named
\* handle; each of them held index 1 and the table holds the named handle's
\* entry only.
RoundTripWitness ==
    /\ \A g \in Named : Live(g) /\ index[g] = 0
    /\ \A h \in Temporaries :
          /\ pc[h] = "released" /\ index[h] = 1
          /\ \A g \in Named : PoolOf(h) = PoolOf(g)
    /\ data = NamedTable
    /\ aborted.why = "no"

\* C17: within a pool the pointer get() returns is a function of the slot
\* index alone, and an injective one: two handles of a pool return the same
\* trampoline exactly when their indices are equal.  So a handle that
\* claims the index a destroyed handle held returns the destroyed handle's
\* pointer value, and a call through the pointer kept from the destroyed
\* handle runs the closure of the new occupant.
Acquired(h) == pc[h] \in {"ctor_body", "live", "rel_lock", "rel_cs", "released"}

PointerByIndex ==
    \A h \in Handles : Acquired(h) =>
        /\ get(h) = Trampoline(PoolOf(h), index[h])
        /\ \A g \in Handles :
              (g > h /\ Acquired(g) /\ PoolOf(g) = PoolOf(h)) =>
                  (get(h) = get(g) <=> index[h] = index[g])

StalePointer ==
    \A h, g \in Handles :
        (/\ pc[h] = "released" /\ Owning(g)
         /\ PoolOf(h) = PoolOf(g) /\ index[h] = index[g]) =>
            /\ get(h) = get(g)
            /\ \A a \in Args : Dispatch(get(h), a) = Returned(arg[g], a)

PointerReuse == [](PointerByIndex /\ StalePointer)

\* The foreign code holds the pointer of a destroyed handle that wrapped A;
\* the handle's index 1 is now held by a live handle wrapping C, and a call
\* of the kept pointer with argument 4 returns C's 104, not A's 7.
PointerReuseWitness ==
    \E h, g \in Handles :
        /\ pc[h] = "released" /\ Holds(h) /\ arg[h] = "A"
        /\ Live(g) /\ arg[g] = "C"
        /\ PoolOf(h) = PoolOf(g) /\ index[h] = 1 /\ index[g] = 1
        /\ Dispatch(get(h), 4).ret = 104
        /\ Call(arg[h], 4) = 7

\* C18: the pool never deadlocks.  A thread holds the lock of a pool
\* exactly while it is inside the critical section of acquire or release
\* on that pool, so the lock is free whenever an operation has returned;
\* and under fair scheduling every acquire or release that was started
\* completes: it returns, or the process is terminated.
CriticalSection == {"acq_cs", "acq_store", "rel_cs"}
InAcquire(h) == pc[h] \in {"acq_lock", "acq_cs", "acq_store"}
InRelease(h) == pc[h] \in {"rel_lock", "rel_cs"}
Terminated == aborted.why # "no"

LockState ==
    \A h \in Handles :
        IF pc[h] \in CriticalSection
        THEN mut[PoolOf(h)] = h
        ELSE \A p \in Pools : mut[p] # h

AcquireCompletes ==
    \A h \in Handles : InAcquire(h) ~> (pc[h] = "ctor_body" \/ Terminated)

ReleaseCompletes ==
    \A h \in Handles : InRelease(h) ~> (pc[h] = "released" \/ Terminated)

NoDeadlock == []LockState /\ AcquireCompletes /\ ReleaseCompletes

\* A thread waited for the lock of a pool held by another thread, and both
\* operations have returned: the waiting acquire after the holder's release.
NoDeadlockWitness ==
    \E h, g \in Handles :
        /\ h # g /\ PoolOf(h) = PoolOf(g)
        /\ pc[g] = "released" /\ Live(h)
        /\ index[h] = index[g]
        /\ mut[PoolOf(h)] = NoOwner
        /\ \E k \in Handles : pc[k] = "acq_lock"
        /\ ~Terminated

====
